---- MODULE Spec2Model ----
(***************************************************************************)
(* The concurrent command/event loop of the weather client                 *)
(* (src/unnamed/part_000, lines 351-714): the input reader goroutine       *)
(* (handleInput), the select loop of main, one goroutine per command       *)
(* (go handleCommand), and one goroutine per weather fetch                 *)
(* (go fetchWeather).                                                      *)
(*                                                                         *)
(* The three channels are unbuffered, so a send and its receive are one    *)
(* step.  A step of a goroutine ends at a blocking operation (a channel    *)
(* operation, a call of the provider, a system call on the file) and at    *)
(* every expression that reads config.Favourites or a slot of its array    *)
(* afresh, or writes them: the goroutines share the list without           *)
(* synchronisation, so their reads and writes interleave.  An index        *)
(* expression outside the length, like a slice expression, panics and ends *)
(* the process.                                                            *)
(*                                                                         *)
(* config.Favourites is a slice: a header (array, length) over a backing   *)
(* array that other headers may share.  append writes into the array of    *)
(* its first argument when the capacity allows and allocates a new array   *)
(* otherwise; the header is stored by a separate assignment.  A slice      *)
(* expression outside the length panics and ends the process.              *)
(*                                                                         *)
(* append copies or shifts one element at a time, reading an element and   *)
(* writing it in separate steps, and json.Marshal copies the header of the *)
(* list and then reads its slots one after another; each of these reads    *)
(* and writes is a step.                                                   *)
(*                                                                         *)
(* os.WriteFile is open with O_TRUNC, write at offset 0, close, each a     *)
(* step; its error is that of the write or else that of the close.         *)
(***************************************************************************)
EXTENDS Naturals, Integers, Sequences, FiniteSets, TLC

VARIABLES
    cfg,       \* config.Favourites, the slice header: [a, n], array a (0 for
               \* none) and length n
    arrays,    \* the backing arrays allocated so far, each as long as its
               \* capacity
    disk,      \* the content of config.json: [state, list, size]
    reader,    \* handleInput: [pc, input]; pc is "scan" (in scanner.Scan),
               \* "send" (at cmdChan <- input), "eof" (looping after the end
               \* of the input) or "fatal" (log.Fatal was called)
    nread,     \* number of lines scanned so far
    hs,        \* the handleCommand goroutines, in the order main started them
    crashed    \* the process died: a run-time panic, or log.Fatal

vars == <<cfg, arrays, disk, reader, nread, hs, crashed>>

\* The list a slice header shows.
View(h) == IF h.n = 0 THEN <<>> ELSE SubSeq(arrays[h.a], 1, h.n)

\* config.Favourites as a list.
favs == View(cfg)

\* Number of lines the user types in one run.
MaxCmds == 2

\* Number of lines the user types in a session of `w` and `f` commands only.
MaxWeatherCmds == 2

\* Number of lines the user types in a session of `fav` and `remove` commands
\* only.
MaxFavCmds == 3

----------------------------------------------------------------------------
(* Data *)

\* strings.ToLower on the strings of this model.
ToLower(s) ==
    CASE s = "FAV"      -> "fav"
      [] s = "Helsinki" -> "helsinki"
      [] s = "Oslo"     -> "oslo"
      [] OTHER          -> s

\* The answers of the geocoding provider (GeoResponse: Name, Lat/Lon).
GeoResponses ==
    { [Name |-> "Helsinki", Coord |-> 1], [Name |-> "Oslo", Coord |-> 2] }

\* Location{City, Country, Coordinates}; the country plays no part in control.
Location(name, coord) == [City |-> name, Coord |-> coord]

\* The lines a user types, after strings.Fields.
Lines ==
    { <<>>, <<"w">>, <<"w", "oslo">>, <<"f">>, <<"list">>, <<"help">>, <<"x">>,
      <<"fav">>, <<"FAV", "Helsinki">>,
      <<"remove", "oslo">>, <<"remove", "Helsinki">> }

\* The lines of a session that only asks for weather.
WeatherLines == { <<"w">>, <<"w", "oslo">>, <<"f">> }

\* The lines of a session that only changes the favourites.
FavLines == { <<"FAV", "Helsinki">>, <<"remove", "oslo">>, <<"remove", "Helsinki">> }

\* A session that adds a city which is not in the list and then removes the
\* entry before it.
FavScript ==
    [k \in 1..MaxFavCmds |->
        << <<"FAV", "oslo">>, <<"remove", "Helsinki">>, <<"remove", "oslo">> >>
            [((k - 1) % 3) + 1]]

\* The sessions that only change the favourites: every sequence of FavLines,
\* and FavScript.
FavSessions == [1..MaxFavCmds -> FavLines] \cup {FavScript}

\* The lines such a session can go on with after the lines typed so far.
NextFavLines ==
    { s[nread + 1] : s \in { x \in FavSessions :
                               \A k \in 1..Len(hs) : x[k] = hs[k].input } }

\* The zero value of Location, in the unused slots of a backing array.
Zero == Location("", 0)

Zeros(k) == [j \in 1..k |-> Zero]

\* The favourites lists config.json may hold at start-up.
InitLists ==
    { <<>>,
      <<Location("Helsinki", 1)>>,
      <<Location("Oslo", 2)>>,
      <<Location("Helsinki", 1), Location("Oslo", 2)>>,
      <<Location("Oslo", 2), Location("Helsinki", 1)>>,
      <<Location("Oslo", 2), Location("Helsinki", 1), Location("Oslo", 2)>> }

\* The length of the longest list at start-up: in a session that adds no
\* favourite, no `f` starts more fetches.
MaxTasks ==
    CHOOSE n \in { Len(l) : l \in InitLists } : \A l \in InitLists : Len(l) <= n

\* The capacity json.Unmarshal leaves in the slice it decodes: none for an
\* empty list; for the others the decoder grows the slice either as append
\* does (1, 2, 4, ...) or from 4 on, depending on the version of the library.
InitCaps(list) ==
    IF Len(list) = 0 THEN {0}
    ELSE {IF Len(list) = 1 THEN 1 ELSE IF Len(list) = 2 THEN 2 ELSE 4, 4}

\* The capacity append gives the new array when an array of capacity n is
\* full.
NewCap(n) == IF n = 0 THEN 1 ELSE 2 * n

\* The length in bytes of the JSON of a list, up to what the lists of this
\* model need to be told apart by length: a longer name makes a longer entry.
RECURSIVE ByteLen(_)
ByteLen(list) ==
    IF Len(list) = 0 THEN 2
    ELSE (IF list[1].City = "Helsinki" THEN 5 ELSE 4) + ByteLen(Tail(list))

\* config.json holding the JSON of `list`, whole.
WholeFile(list) == [state |-> "whole", list |-> list, size |-> ByteLen(list)]

\* config.json truncated to no bytes.
EmptyFile == [state |-> "empty", list |-> <<>>, size |-> 0]

\* config.json holding `size` bytes that are not the JSON of one list.
Garbled(size) == [state |-> "garbled", list |-> <<>>, size |-> size]

\* write(fd, bytes) at offset 0 of the file: the bytes replace the head of
\* what the file holds, and what lies beyond them stays.
WriteAt0(file, list) ==
    IF file.size <= ByteLen(list) THEN WholeFile(list) ELSE Garbled(file.size)

\* What a write of the bytes that fails can leave: the file as it was, or
\* with the first k bytes written over its head.
PartialWrite(file, list) ==
    {file} \cup { Garbled(IF file.size > k THEN file.size ELSE k) :
                     k \in 1..(ByteLen(list) - 1) }

\* errors
ErrMissingCity == "Missing city parameter"
ErrLocation    == "Location not found"      \* any failure of fetchLocationData
ErrNotFound    == "Not found"               \* any failure of fetchWeather
ErrDuplicate   == "already exists in favourites"
ErrAbsent      == "does not exist in favourites"
ErrSave        == "Failed to save config file"
ErrWrite       == "write config.json failed"
ErrMarshal     == "Failed to marshal data"
ErrJSON        == "json: unsupported value"
NoErr          == ""

\* A fetchWeather goroutine.
NewTask(coord) ==
    [coord |-> coord, pc |-> "run", res |-> "none", sent |-> 0, printed |-> 0]

\* A handleCommand goroutine as `go handleCommand(cmd, ...)` creates it.
NewHandler(input) ==
    [input |-> input, pc |-> "start", after |-> "done", i |-> 0, idx |-> -1,
     favourites |-> [a |-> 0, n |-> 0], s |-> [a |-> 0, n |-> 0],
     t |-> [a |-> 0, n |-> 0], j |-> 0,
     loc |-> Zero, buf |-> <<>>, nf |-> [a |-> 0, n |-> 0],
     bytes |-> <<>>, werr |-> FALSE, err |-> NoErr, errShown |-> FALSE, out |-> <<>>,
     n0 |-> 0, view |-> <<>>, tasks |-> <<>>, got |-> <<>>]

\* errorChan <- err, then the code at `next`
SendErr(r, e, next) == [r EXCEPT !.pc = "send_err", !.err = e, !.after = next]

\* Mutant: nothing is printed.
Say_Nothing(r, text) == r

\* fmt.Println and the like: what the handler prints.
Say(r, text) == [r EXCEPT !.out = Append(@, text)]

\* The goroutine ends and its locals with it.
Return(r) ==
    [r EXCEPT !.pc = "done", !.after = "done", !.i = 0, !.idx = -1,
              !.favourites = [a |-> 0, n |-> 0], !.s = [a |-> 0, n |-> 0],
              !.t = [a |-> 0, n |-> 0], !.j = 0, !.loc = Zero, !.buf = <<>>,
              !.nf = [a |-> 0, n |-> 0], !.bytes = <<>>, !.werr = FALSE]

\* A run-time panic in the goroutine.
Panic(r) == [r EXCEPT !.pc = "panic"]

\* command, city of handleCommand
Command(input) == ToLower(input[1])
City(input) == IF Len(input) > 1 THEN ToLower(input[2]) ELSE ""

H == DOMAIN hs
TaskIds == UNION { { <<h, k>> : k \in DOMAIN hs[h].tasks } : h \in H }
Task(t) == hs[t[1]].tasks[t[2]]

SetTask(t, r) == [hs EXCEPT ![t[1]].tasks[t[2]] = r]

----------------------------------------------------------------------------
\* main up to its loop: readConfigFile has decoded one of `lists` into config,
\* the channels are made and handleInput is started.
InitWith(lists) ==
    /\ \E list \in lists, cap \in 0..4 :
          /\ cap \in InitCaps(list)
          /\ arrays = IF cap = 0 THEN <<>> ELSE <<list \o Zeros(cap - Len(list))>>
          /\ cfg = [a |-> IF cap = 0 THEN 0 ELSE 1, n |-> Len(list)]
          /\ disk = WholeFile(list)
    /\ reader = [pc |-> "scan", input |-> <<>>]
    /\ nread = 0
    /\ hs = <<>>
    /\ crashed = FALSE

Init == InitWith(InitLists)

\* The same with config.json holding the one favourite Helsinki.
InitFavs == InitWith({ <<Location("Helsinki", 1)>> })

----------------------------------------------------------------------------
(* handleInput *)

\* scanner.Scan() returned a line; strings.Fields split it.
ReaderScan(L, max) ==
    /\ ~crashed
    /\ reader.pc = "scan"
    /\ nread < max
    /\ \E l \in L : reader' = [pc |-> "send", input |-> l]
    /\ nread' = nread + 1
    /\ UNCHANGED <<cfg, arrays, disk, hs, crashed>>

\* scanner.Scan() returned false at the end of the input and scanner.Err()
\* is nil: the loop goes round.
ReaderEOF ==
    /\ ~crashed
    /\ reader.pc = "scan"
    /\ reader' = [pc |-> "eof", input |-> <<>>]
    /\ UNCHANGED <<cfg, arrays, disk, nread, hs, crashed>>

\* Every further iteration after the end of the input: scanner.Scan() returns
\* false again, scanner.Err() is nil again.
ReaderSpin ==
    /\ ~crashed
    /\ reader.pc = "eof"
    /\ UNCHANGED vars

\* scanner.Scan() returned false and scanner.Err() is not nil: log.Fatal ends
\* the process.
ReaderFatal ==
    /\ ~crashed
    /\ reader.pc = "scan"
    /\ reader' = [pc |-> "fatal", input |-> <<>>]
    /\ crashed' = TRUE
    /\ UNCHANGED <<cfg, arrays, disk, nread, hs>>

----------------------------------------------------------------------------
(* main: the select loop *)

\* Mutant: the dispatcher leaves its loop once it has printed an error.
MainAtSelect_StopsOnError ==
    /\ ~crashed
    /\ \A h \in DOMAIN hs :
          /\ ~hs[h].errShown
          /\ \A k \in DOMAIN hs[h].tasks : hs[h].tasks[k].res # "error"

\* Mutant: the dispatcher waits for the outstanding fetches before it selects.
MainAtSelect_WaitsForTasks ==
    /\ ~crashed
    /\ \A h \in DOMAIN hs : \A k \in DOMAIN hs[h].tasks : hs[h].tasks[k].pc = "done"

\* The dispatcher is between two iterations whenever the process is alive:
\* each case of the select runs without blocking.
MainAtSelect == ~crashed

\* case cmd := <-cmdChan: go handleCommand(cmd, ...)
MainRecvCmd ==
    /\ MainAtSelect
    /\ reader.pc = "send"
    /\ hs' = Append(hs, NewHandler(reader.input))
    /\ reader' = [pc |-> "scan", input |-> <<>>]
    /\ UNCHANGED <<cfg, arrays, disk, nread, crashed>>

\* Mutant: fetchWeather returns on an error without sending it.
FetchWeather_DropsError(task, e) ==
    IF e = NoErr THEN [task EXCEPT !.pc = "done", !.sent = @ + 1, !.res = "weather"]
    ELSE [task EXCEPT !.pc = "done"]

\* Mutant: fetchWeather lacks the return after errorChan <- err and goes on to
\* send a result as well.
FetchWeather_NoReturn(task, e) ==
    [task EXCEPT !.pc = IF e = NoErr THEN "done" ELSE "run", !.sent = @ + 1,
                 !.res = IF e = NoErr THEN "weather" ELSE "error"]

\* fetchWeather, from its call of the provider to its one send: an error on
\* errorChan when the call failed (e), the result on weatherChan otherwise.
\* The send completes when a receiver takes it.
FetchWeather(task, e) ==
    [task EXCEPT !.pc = "done", !.sent = @ + 1,
                 !.res = IF e = NoErr THEN "weather" ELSE "error"]

\* printResult(res), fmt.Println(err): the receiver prints what it received.
Printed(task) == [task EXCEPT !.printed = @ + 1]

\* case res := <-weatherChan: printResult(res)
MainRecvWeather(t) ==
    /\ MainAtSelect
    /\ Task(t).pc = "run"
    /\ hs' = SetTask(t, Printed(FetchWeather(Task(t), NoErr)))
    /\ UNCHANGED <<cfg, arrays, disk, reader, nread, crashed>>

\* case err := <-errorChan: fmt.Println(err), the sender being a fetchWeather
MainRecvTaskErr(t) ==
    /\ MainAtSelect
    /\ Task(t).pc = "run"
    /\ hs' = SetTask(t, Printed(FetchWeather(Task(t), ErrNotFound)))
    /\ UNCHANGED <<cfg, arrays, disk, reader, nread, crashed>>

\* case err := <-errorChan: fmt.Println(err), the sender being a handleCommand
MainRecvHandlerErr(h) ==
    /\ MainAtSelect
    /\ hs[h].pc = "send_err"
    /\ hs' = [hs EXCEPT ![h] = IF hs[h].after = "done"
                                THEN Return([hs[h] EXCEPT !.errShown = TRUE])
                                ELSE [hs[h] EXCEPT !.pc = hs[h].after, !.errShown = TRUE]]
    /\ UNCHANGED <<cfg, arrays, disk, reader, nread, crashed>>

----------------------------------------------------------------------------
(* handleCommand and the functions it calls *)

\* The loop of addFavourite, its test: i < len(config.Favourites), and the
\* call of fetchLocationData when the loop ends.
AddFavouriteTest(r) ==
    IF r.i < Len(favs) THEN [r EXCEPT !.pc = "fav_index"]
    ELSE [r EXCEPT !.pc = "fav_resolve"]

\* The loop of addFavourite, its body: c := config.Favourites[i].City, which
\* panics when the list no longer has an entry i, and the comparison with
\* the typed city.
AddFavouriteIndex(r) ==
    IF r.i + 1 > Len(favs) THEN Panic(r)
    ELSE IF ToLower(favs[r.i + 1].City) = ToLower(City(r.input))
         THEN SendErr(r, ErrDuplicate, "done")
         ELSE [r EXCEPT !.pc = "fav_test", !.i = @ + 1]

\* The index removeFavourite finds in a list that does not change: that of
\* the first match, or -1.
FindIndex(list, city) ==
    LET M == { k \in DOMAIN list : ToLower(list[k].City) = city }
    IN  IF M = {} THEN -1 ELSE (CHOOSE k \in M : \A j \in M : k <= j) - 1

\* removeFavourite: favourites := config.Favourites, and the first test of
\* the loop against the length of that copy.  view records the list the copy
\* shows; the code keeps only the header.
RemoveFavouriteStart(r) ==
    LET r0 == [r EXCEPT !.favourites = cfg, !.view = favs, !.i = 0]
    IN  IF cfg.n = 0 THEN SendErr(r0, ErrAbsent, "done")
        ELSE [r0 EXCEPT !.pc = "rm_scan"]

\* One iteration of the loop of removeFavourite: favourites[i] is read in
\* the array of the copied header, as it is now; the loop ends at a match or
\* at the length of the copy, and with index -1 the error is returned.
RemoveFavouriteScan(r) ==
    LET slot == arrays[r.favourites.a][r.i + 1]
    IN  IF ToLower(slot.City) = City(r.input)
        THEN [r EXCEPT !.pc = "rm_mutate", !.idx = r.i]
        ELSE IF r.i + 1 < r.favourites.n THEN [r EXCEPT !.i = @ + 1]
             ELSE SendErr(r, ErrAbsent, "done")

\* append(list[:index], list[index+1:]...)
RemoveAt(list, index) ==
    SubSeq(list, 1, index) \o SubSeq(list, index + 2, Len(list))

\* Mutant: listFavourites returns an error for an empty list, which
\* handleCommand sends on errorChan.
ListFavourites_ErrOnEmpty(r) ==
    IF Len(favs) = 0 THEN SendErr(r, "No favourites added", "done")
    ELSE Return(Say(r, "Favourites"))

\* listFavourites
ListFavourites(r) ==
    LET r1 == IF Len(favs) = 0 THEN Say(r, "No favourites added") ELSE r
    IN  Return(Say(r1, "Favourites"))

\* The loop of fetchFavourites, its test: i < len(config.Favourites).
FetchFavourites(r) ==
    IF r.i < Len(favs) THEN [r EXCEPT !.pc = "f_index"] ELSE Return(r)

\* The loop of fetchFavourites, its body:
\* go fetchWeather(config.Favourites[i].Coordinates, ...); the index
\* expression panics when the list no longer has an entry i.
FetchFavouritesGo(r) ==
    IF r.i + 1 > Len(favs) THEN Panic(r)
    ELSE [r EXCEPT !.pc = "f_loop", !.i = @ + 1,
                   !.tasks = Append(@, NewTask(favs[r.i + 1].Coord))]

\* fetchFavourites before its loop: the message for an empty list.  n0 and
\* view record the list as the function finds it; the code keeps neither.
FetchFavouritesStart(r) ==
    LET r0 == [r EXCEPT !.pc = "f_loop", !.i = 0, !.n0 = Len(favs), !.view = favs]
    IN  IF Len(favs) = 0 THEN Say(r0, "No favourites added") ELSE r0

\* handleCommand up to its first blocking operation or call, or to the next
\* expression that reads config.Favourites or its array afresh
HandleCommand(r) ==
    LET input == r.input
        city  == City(input)
    IN  IF Len(input) = 0 THEN Return(r)
        ELSE CASE Command(input) = "w" ->
                    IF Len(input) < 2 THEN SendErr(r, ErrMissingCity, "done")
                    ELSE [r EXCEPT !.pc = "resolve"]
               [] Command(input) = "f" -> FetchFavouritesStart(r)
               [] Command(input) = "list" -> ListFavourites(r)
               [] Command(input) = "fav" ->
                    IF Len(input) < 2 THEN SendErr(r, ErrMissingCity, "done")
                    ELSE AddFavouriteTest([r EXCEPT !.i = 0, !.view = favs])
               [] Command(input) = "remove" -> RemoveFavouriteStart(r)
               [] Command(input) = "help" -> Return(Say(r, "Commands"))
               [] OTHER -> Return(Say(r, "Unknown command"))

HStart(h) ==
    /\ ~crashed
    /\ hs[h].pc = "start"
    /\ hs' = [hs EXCEPT ![h] = HandleCommand(hs[h])]
    /\ UNCHANGED <<cfg, arrays, disk, reader, nread, crashed>>

\* getWeatherByCity: fetchLocationData, then errorChan <- err or go fetchWeather;
\* handleCommand goes on to printResult(<-weatherChan) in both cases.
GetWeatherByCity(r, e, g) ==
    IF e # NoErr THEN SendErr(r, e, "recv_weather")
    ELSE [r EXCEPT !.pc = "recv_weather", !.tasks = Append(@, NewTask(g.Coord))]

HResolve(h) ==
    /\ ~crashed
    /\ hs[h].pc = "resolve"
    /\ \/ hs' = [hs EXCEPT ![h] = GetWeatherByCity(hs[h], ErrLocation,
                                                  CHOOSE g \in GeoResponses : TRUE)]
       \/ \E g \in GeoResponses :
             hs' = [hs EXCEPT ![h] = GetWeatherByCity(hs[h], NoErr, g)]
    /\ UNCHANGED <<cfg, arrays, disk, reader, nread, crashed>>

\* printResult(<-weatherChan) in handleCommand: the handler takes the result of
\* whichever fetchWeather is sending.
HRecvWeather(h, t) ==
    /\ ~crashed
    /\ hs[h].pc = "recv_weather"
    /\ Task(t).pc = "run"
    /\ LET hs1 == SetTask(t, Printed(FetchWeather(Task(t), NoErr)))
       IN  hs' = [hs1 EXCEPT ![h] = Return([Say(hs1[h], "Weather") EXCEPT !.got = t])]
    /\ UNCHANGED <<cfg, arrays, disk, reader, nread, crashed>>

HFetchFavourites(h) ==
    /\ ~crashed
    /\ hs[h].pc = "f_loop"
    /\ hs' = [hs EXCEPT ![h] = FetchFavourites(hs[h])]
    /\ UNCHANGED <<cfg, arrays, disk, reader, nread, crashed>>

HFetchFavouritesGo(h) ==
    /\ ~crashed
    /\ hs[h].pc = "f_index"
    /\ hs' = [hs EXCEPT ![h] = FetchFavouritesGo(hs[h])]
    /\ crashed' = (hs'[h].pc = "panic")
    /\ UNCHANGED <<cfg, arrays, disk, reader, nread>>

HAddFavouriteTest(h) ==
    /\ ~crashed
    /\ hs[h].pc = "fav_test"
    /\ hs' = [hs EXCEPT ![h] = AddFavouriteTest(hs[h])]
    /\ UNCHANGED <<cfg, arrays, disk, reader, nread, crashed>>

HAddFavouriteIndex(h) ==
    /\ ~crashed
    /\ hs[h].pc = "fav_index"
    /\ hs' = [hs EXCEPT ![h] = AddFavouriteIndex(hs[h])]
    /\ crashed' = (hs'[h].pc = "panic")
    /\ UNCHANGED <<cfg, arrays, disk, reader, nread>>

HRemoveFavouriteScan(h) ==
    /\ ~crashed
    /\ hs[h].pc = "rm_scan"
    /\ hs' = [hs EXCEPT ![h] = RemoveFavouriteScan(hs[h])]
    /\ UNCHANGED <<cfg, arrays, disk, reader, nread, crashed>>

\* append(s, ...) writes into the array of s when its capacity allows.
InPlace(s) == s.a # 0 /\ s.n < Len(arrays[s.a])

\* Mutant: addFavourite notes the error of fetchLocationData and goes on to
\* the append.
AddFavourite_IgnoresError(r, e, g) ==
    [r EXCEPT !.pc = "fav_load", !.err = e, !.loc = Location(g.Name, g.Coord)]

\* addFavourite: fetchLocationData returns; its error is returned, or the
\* Location to append is built.
AddFavourite(r, e, g) ==
    IF e # NoErr THEN SendErr(r, e, "done")
    ELSE [r EXCEPT !.pc = "fav_load", !.loc = Location(g.Name, g.Coord)]

HAddFavourite(h) ==
    /\ ~crashed
    /\ hs[h].pc = "fav_resolve"
    /\ \/ hs' = [hs EXCEPT ![h] = AddFavourite(hs[h], ErrLocation,
                                              CHOOSE g \in GeoResponses : TRUE)]
       \/ \E g \in GeoResponses :
             hs' = [hs EXCEPT ![h] = AddFavourite(hs[h], NoErr, g)]
    /\ UNCHANGED <<cfg, arrays, disk, reader, nread, crashed>>

\* The array append allocates when that of s is full: the entries copied so
\* far, the new entry, and the rest of the new capacity.
Grown(r) == r.buf \o <<r.loc>> \o Zeros(NewCap(r.s.n) - r.s.n - 1)

\* append(config.Favourites, Location{...}), the load of config.Favourites:
\* with room in its array the entry will be written there; a full array
\* is copied to a new one, which no other goroutine sees before the
\* assignment.
HAppendLoad(h) ==
    /\ ~crashed
    /\ hs[h].pc = "fav_load"
    /\ LET r == [hs[h] EXCEPT !.s = cfg, !.j = 0, !.buf = <<>>]
       IN  IF InPlace(cfg)
           THEN /\ hs' = [hs EXCEPT ![h] = [r EXCEPT !.pc = "fav_put"]]
                /\ UNCHANGED arrays
           ELSE IF cfg.n = 0
                THEN /\ arrays' = Append(arrays, Grown(r))
                     /\ hs' = [hs EXCEPT ![h] =
                                 [r EXCEPT !.pc = "fav_assign",
                                           !.nf = [a |-> Len(arrays) + 1, n |-> 1]]]
                ELSE /\ hs' = [hs EXCEPT ![h] = [r EXCEPT !.pc = "fav_copy"]]
                     /\ UNCHANGED arrays
    /\ UNCHANGED <<cfg, disk, reader, nread, crashed>>

\* append, growing: one entry of the old array is copied to the new one; after
\* the last the new entry is written behind them.
HAppendCopy(h) ==
    /\ ~crashed
    /\ hs[h].pc = "fav_copy"
    /\ LET r == [hs[h] EXCEPT !.buf = Append(@, arrays[hs[h].s.a][hs[h].j + 1]),
                              !.j = @ + 1]
       IN  IF r.j < r.s.n
           THEN /\ hs' = [hs EXCEPT ![h] = r]
                /\ UNCHANGED arrays
           ELSE /\ arrays' = Append(arrays, Grown(r))
                /\ hs' = [hs EXCEPT ![h] =
                            [r EXCEPT !.pc = "fav_assign",
                                      !.nf = [a |-> Len(arrays) + 1, n |-> r.s.n + 1]]]
    /\ UNCHANGED <<cfg, disk, reader, nread, crashed>>

\* append, in place: the new entry is written into the slot behind the
\* length of the slice that was loaded.
HAppendPut(h) ==
    /\ ~crashed
    /\ hs[h].pc = "fav_put"
    /\ arrays' = [arrays EXCEPT ![hs[h].s.a][hs[h].s.n + 1] = hs[h].loc]
    /\ hs' = [hs EXCEPT ![h].pc = "fav_assign",
                        ![h].nf = [a |-> hs[h].s.a, n |-> hs[h].s.n + 1]]
    /\ UNCHANGED <<cfg, disk, reader, nread, crashed>>

\* addFavourite: config.Favourites = newFavourites
HAssignFavourites(h) ==
    /\ ~crashed
    /\ hs[h].pc = "fav_assign"
    /\ cfg' = hs[h].nf
    /\ hs' = [hs EXCEPT ![h].pc = "marshal"]
    /\ UNCHANGED <<arrays, disk, reader, nread, crashed>>

\* cap(s)
Cap(s) == IF s.a = 0 THEN 0 ELSE Len(arrays[s.a])

\* The capacity append gives the array it allocates for m entries when the
\* array it has holds c.
GrowCap(c, m) == IF m > 2 * c THEN m ELSE 2 * c

\* removeFavourite, the right-hand side of the assignment:
\* append(config.Favourites[:index], config.Favourites[index+1:]...), its
\* first operand: config.Favourites is loaded and sliced up to the index the
\* scan found, which panics past the capacity.
HRemoveFavourite(h) ==
    /\ ~crashed
    /\ hs[h].pc = "rm_mutate"
    /\ hs' = [hs EXCEPT ![h] =
                IF hs[h].idx > Cap(cfg) THEN Panic(hs[h])
                ELSE [hs[h] EXCEPT !.pc = "rm_load", !.s = cfg]]
    /\ crashed' = (hs'[h].pc = "panic")
    /\ UNCHANGED <<cfg, arrays, disk, reader, nread>>

\* The second operand: config.Favourites is loaded again and sliced from
\* index+1, which panics past the length of the list as it is now.  With no
\* entry behind the index append returns its first operand; entries that do
\* not fit the capacity of the first operand go to a new array.
HRemoveLoad(h) ==
    /\ ~crashed
    /\ hs[h].pc = "rm_load"
    /\ hs' = [hs EXCEPT ![h] =
                LET r == [hs[h] EXCEPT !.t = cfg, !.buf = <<>>]
                IN  IF r.idx + 1 > cfg.n THEN Panic(hs[h])
                    ELSE IF r.idx + 1 = cfg.n
                         THEN [r EXCEPT !.pc = "rm_assign",
                                        !.nf = [a |-> r.s.a, n |-> r.idx]]
                         ELSE [r EXCEPT !.pc = "rm_shift",
                                        !.j = IF cfg.n - 1 <= Cap(r.s)
                                              THEN r.idx ELSE 0]]
    /\ crashed' = (hs'[h].pc = "panic")
    /\ UNCHANGED <<cfg, arrays, disk, reader, nread>>

\* The same append, a load: the next entry behind the index is read, the
\* lowest first.  With room in the array of the first operand the entries
\* read are then stored there one slot down (HRemoveStore); the copy may read
\* several entries before it stores the first.  Without room the entries
\* before the index and those behind it are read one by one and go to a new
\* array.
HRemoveShift(h) ==
    /\ ~crashed
    /\ hs[h].pc = "rm_shift"
    /\ LET r == hs[h]
           m == r.t.n - 1
       IN  IF m <= Cap(r.s)
           THEN /\ Len(r.buf) < m - r.idx
                /\ hs' = [hs EXCEPT ![h].buf =
                            Append(@, arrays[r.t.a][r.idx + Len(r.buf) + 2])]
                /\ UNCHANGED arrays
           ELSE LET e == IF r.j < r.idx THEN arrays[r.s.a][r.j + 1]
                         ELSE arrays[r.t.a][r.j + 2]
                    q == [r EXCEPT !.buf = Append(@, e), !.j = @ + 1]
                IN  IF q.j < m
                    THEN /\ hs' = [hs EXCEPT ![h] = q]
                         /\ UNCHANGED arrays
                    ELSE /\ arrays' = Append(arrays,
                                         q.buf \o Zeros(GrowCap(Cap(r.s), m) - m))
                         /\ hs' = [hs EXCEPT ![h] =
                                     [q EXCEPT !.pc = "rm_assign",
                                               !.nf = [a |-> Len(arrays) + 1, n |-> m]]]
    /\ UNCHANGED <<cfg, disk, reader, nread, crashed>>

\* The same append, a store: an entry that was read is written one slot
\* down in the array of the first operand, the lowest first; the slot behind
\* the last keeps its entry.
HRemoveStore(h) ==
    /\ ~crashed
    /\ hs[h].pc = "rm_shift"
    /\ LET r == hs[h]
           m == r.t.n - 1
       IN  /\ m <= Cap(r.s)
           /\ r.j - r.idx < Len(r.buf)
           /\ arrays' = [arrays EXCEPT ![r.s.a][r.j + 1] = r.buf[r.j - r.idx + 1]]
           /\ hs' = [hs EXCEPT ![h] =
                       IF r.j + 1 < m THEN [r EXCEPT !.j = @ + 1]
                       ELSE [r EXCEPT !.pc = "rm_assign",
                                      !.nf = [a |-> r.s.a, n |-> m]]]
    /\ UNCHANGED <<cfg, disk, reader, nread, crashed>>

\* removeFavourite: the store of config.Favourites = append(...)
HRemoveAssign(h) ==
    /\ ~crashed
    /\ hs[h].pc = "rm_assign"
    /\ cfg' = hs[h].nf
    /\ hs' = [hs EXCEPT ![h].pc = "marshal"]
    /\ UNCHANGED <<arrays, disk, reader, nread, crashed>>

\* json.Marshal returns: with an error the function returns it, without one
\* it goes on to saveConfig.
MarshalResult(r, ok) ==
    IF ok THEN [r EXCEPT !.pc = "save"]
    ELSE SendErr(r, IF Command(r.input) = "fav" THEN ErrMarshal ELSE ErrJSON, "done")

\* json.Marshal(config): the call copies config, and with it the header of
\* config.Favourites.  oks: whether encoding succeeds, fails, or either.
HMarshal(h, oks) ==
    /\ ~crashed
    /\ hs[h].pc = "marshal"
    /\ LET r == [hs[h] EXCEPT !.s = cfg, !.j = 0, !.bytes = <<>>]
       IN  IF cfg.n = 0
           THEN \E ok \in oks : hs' = [hs EXCEPT ![h] = MarshalResult(r, ok)]
           ELSE hs' = [hs EXCEPT ![h] = [r EXCEPT !.pc = "marshal_slot"]]
    /\ UNCHANGED <<cfg, arrays, disk, reader, nread, crashed>>

\* json.Marshal encodes one entry, read in the array of the copied header as
\* it is now; after the last it returns.
HMarshalSlot(h, oks) ==
    /\ ~crashed
    /\ hs[h].pc = "marshal_slot"
    /\ LET r == [hs[h] EXCEPT !.bytes = Append(@, arrays[hs[h].s.a][hs[h].j + 1]),
                              !.j = @ + 1]
       IN  IF r.j < r.s.n THEN hs' = [hs EXCEPT ![h] = r]
           ELSE \E ok \in oks : hs' = [hs EXCEPT ![h] = MarshalResult(r, ok)]
    /\ UNCHANGED <<cfg, arrays, disk, reader, nread, crashed>>

\* Mutant: the confirmation is printed whatever saveConfig returned.
SaveResult_ConfirmsAnyway(r, ok) == [r EXCEPT !.pc = "confirm"]

\* saveConfig returns: with an error the function returns it, without one it
\* goes on to the confirmation.
SaveResult(r, ok) ==
    IF ok THEN [r EXCEPT !.pc = "confirm"]
    ELSE SendErr(r, IF Command(r.input) = "fav" THEN ErrSave ELSE ErrWrite, "done")

\* saveConfig, os.WriteFile: the open of config.json, which truncates it, or
\* fails and leaves it.  oks: whether the file system lets the call succeed,
\* fail, or either.
HSave(h, oks) ==
    /\ ~crashed
    /\ hs[h].pc = "save"
    /\ \E ok \in oks :
          IF ok THEN /\ disk' = EmptyFile
                     /\ hs' = [hs EXCEPT ![h].pc = "write"]
          ELSE /\ UNCHANGED disk
               /\ hs' = [hs EXCEPT ![h] = SaveResult(hs[h], FALSE)]
    /\ UNCHANGED <<cfg, arrays, reader, nread, crashed>>

\* os.WriteFile: the write of the bytes at the start of the file.  A write
\* that fails has written nothing or a part; the file is closed all the same.
HWrite(h, oks) ==
    /\ ~crashed
    /\ hs[h].pc = "write"
    /\ \E ok \in oks :
          IF ok THEN /\ disk' = WriteAt0(disk, hs[h].bytes)
                     /\ hs' = [hs EXCEPT ![h].pc = "close"]
          ELSE /\ disk' \in PartialWrite(disk, hs[h].bytes)
               /\ hs' = [hs EXCEPT ![h].pc = "close", ![h].werr = TRUE]
    /\ UNCHANGED <<cfg, arrays, reader, nread, crashed>>

\* os.WriteFile: the close of the file; WriteFile returns the error of the
\* write, or else that of the close.
HClose(h, oks) ==
    /\ ~crashed
    /\ hs[h].pc = "close"
    /\ IF hs[h].werr THEN hs' = [hs EXCEPT ![h] = SaveResult(hs[h], FALSE)]
       ELSE \E ok \in oks : hs' = [hs EXCEPT ![h] = SaveResult(hs[h], ok)]
    /\ UNCHANGED <<cfg, arrays, disk, reader, nread, crashed>>

\* The confirmation addFavourite and removeFavourite print before they
\* return nil.
Confirm(r) ==
    Return(Say(r, IF Command(r.input) = "fav" THEN "added" ELSE "removed"))

HConfirm(h) ==
    /\ ~crashed
    /\ hs[h].pc = "confirm"
    /\ hs' = [hs EXCEPT ![h] = Confirm(hs[h])]
    /\ UNCHANGED <<cfg, arrays, disk, reader, nread, crashed>>

----------------------------------------------------------------------------
Next ==
    \/ ReaderScan(Lines, MaxCmds)
    \/ ReaderEOF
    \/ ReaderSpin
    \/ ReaderFatal
    \/ MainRecvCmd
    \/ \E t \in TaskIds : MainRecvWeather(t)
    \/ \E t \in TaskIds : MainRecvTaskErr(t)
    \/ \E h \in H : MainRecvHandlerErr(h)
    \/ \E h \in H : HStart(h)
    \/ \E h \in H : HResolve(h)
    \/ \E h \in H, t \in TaskIds : HRecvWeather(h, t)
    \/ \E h \in H : HFetchFavourites(h)
    \/ \E h \in H : HFetchFavouritesGo(h)
    \/ \E h \in H : HAddFavouriteTest(h)
    \/ \E h \in H : HAddFavouriteIndex(h)
    \/ \E h \in H : HRemoveFavouriteScan(h)
    \/ \E h \in H : HAddFavourite(h)
    \/ \E h \in H : HAppendLoad(h)
    \/ \E h \in H : HAppendCopy(h)
    \/ \E h \in H : HAppendPut(h)
    \/ \E h \in H : HAssignFavourites(h)
    \/ \E h \in H : HRemoveFavourite(h)
    \/ \E h \in H : HRemoveLoad(h)
    \/ \E h \in H : HRemoveShift(h)
    \/ \E h \in H : HRemoveStore(h)
    \/ \E h \in H : HRemoveAssign(h)
    \/ \E h \in H : HMarshal(h, BOOLEAN)
    \/ \E h \in H : HMarshalSlot(h, BOOLEAN)
    \/ \E h \in H : HSave(h, BOOLEAN)
    \/ \E h \in H : HWrite(h, BOOLEAN)
    \/ \E h \in H : HClose(h, BOOLEAN)
    \/ \E h \in H : HConfirm(h)

Spec == Init /\ [][Next]_vars

----------------------------------------------------------------------------
(* A session in which the user only types `w` and `f` commands and the     *)
(* input stays open.                                                       *)

NextWeather ==
    \/ ReaderScan(WeatherLines, MaxWeatherCmds)
    \/ MainRecvCmd
    \/ \E t \in TaskIds : MainRecvWeather(t)
    \/ \E t \in TaskIds : MainRecvTaskErr(t)
    \/ \E h \in H : MainRecvHandlerErr(h)
    \/ \E h \in H : HStart(h)
    \/ \E h \in H : HResolve(h)
    \/ \E h \in H, t \in TaskIds : HRecvWeather(h, t)
    \/ \E h \in H : HFetchFavourites(h)
    \/ \E h \in H : HFetchFavouritesGo(h)

\* The Go scheduler runs every runnable goroutine, select takes a ready case,
\* and the calls to the provider return.  The user may stop typing.
Progress ==
    \/ MainRecvCmd
    \/ \E t \in TaskIds : MainRecvWeather(t)
    \/ \E t \in TaskIds : MainRecvTaskErr(t)
    \/ \E h \in H : MainRecvHandlerErr(h)
    \/ \E h \in H : HStart(h)
    \/ \E h \in H : HResolve(h)
    \/ \E h \in H : HFetchFavourites(h)
    \/ \E h \in H : HFetchFavouritesGo(h)

Fairness == WF_vars(Progress)

SpecWeather == Init /\ [][NextWeather]_vars /\ Fairness

----------------------------------------------------------------------------
(* A session that starts with the one favourite Helsinki, in which the     *)
(* user only types `fav` and `remove` commands and                         *)
(* json.Marshal and the file system let every save succeed.                *)

NextFavs ==
    \/ ReaderScan(NextFavLines, MaxFavCmds)
    \/ MainRecvCmd
    \/ \E h \in H : MainRecvHandlerErr(h)
    \/ \E h \in H : HStart(h)
    \/ \E h \in H : HAddFavouriteTest(h)
    \/ \E h \in H : HAddFavouriteIndex(h)
    \/ \E h \in H : HRemoveFavouriteScan(h)
    \/ \E h \in H : HAddFavourite(h)
    \/ \E h \in H : HAppendLoad(h)
    \/ \E h \in H : HAppendCopy(h)
    \/ \E h \in H : HAppendPut(h)
    \/ \E h \in H : HAssignFavourites(h)
    \/ \E h \in H : HRemoveFavourite(h)
    \/ \E h \in H : HRemoveLoad(h)
    \/ \E h \in H : HRemoveShift(h)
    \/ \E h \in H : HRemoveStore(h)
    \/ \E h \in H : HRemoveAssign(h)
    \/ \E h \in H : HMarshal(h, {TRUE})
    \/ \E h \in H : HMarshalSlot(h, {TRUE})
    \/ \E h \in H : HSave(h, {TRUE})
    \/ \E h \in H : HWrite(h, {TRUE})
    \/ \E h \in H : HClose(h, {TRUE})
    \/ \E h \in H : HConfirm(h)

SpecFavs == InitFavs /\ [][NextFavs]_vars

----------------------------------------------------------------------------
(* Claims *)

Spawned(h, k) == h \in H /\ k \in DOMAIN hs[h].tasks

\* C1: in a session of `w` and `f` commands, under fair scheduling, every
\* fetchWeather that was started eventually has its outcome received and
\* printed, and every error a `w` handler sends is eventually printed.
C1_EveryOutcomePrinted ==
    /\ \A h \in 1..MaxWeatherCmds, k \in 1..MaxTasks :
          Spawned(h, k) ~> /\ Spawned(h, k)
                           /\ hs[h].tasks[k].sent = 1
                           /\ hs[h].tasks[k].printed = 1
    /\ \A h \in 1..MaxWeatherCmds :
          (h \in H /\ hs[h].pc = "send_err") ~> (h \in H /\ hs[h].errShown)

\* An `f` with two favourites and a `w` ran together and all three outcomes
\* were printed.
C1_Witness ==
    \E f, w \in H :
        /\ Command(hs[f].input) = "f" /\ Len(hs[f].tasks) = 2
        /\ Command(hs[w].input) = "w" /\ Len(hs[w].tasks) = 1
        /\ \A k \in DOMAIN hs[f].tasks : hs[f].tasks[k].printed = 1
        /\ hs[w].tasks[1].printed = 1

IsCmd(h, c) == Len(hs[h].input) > 0 /\ Command(hs[h].input) = c

Mutating(h) ==
    hs[h].pc \in {"fav_test", "fav_index", "fav_resolve", "fav_load", "fav_copy",
                  "fav_put", "fav_assign",
                  "rm_scan", "rm_mutate", "rm_load", "rm_shift",
                  "rm_assign",
                  "marshal", "marshal_slot", "save", "write", "close", "confirm"}

\* The goroutine is iterating over config.Favourites for a fan-out.
FanningOut(h) == hs[h].pc \in {"f_loop", "f_index"}

\* C3: at most one execution context is reading-then-writing Favourites, and
\* no fan-out read overlaps a mutation.
C3_SingleMutator ==
    \A a, b \in H :
        a # b => ~(Mutating(a) /\ (Mutating(b) \/ FanningOut(b)))

\* The goroutine has begun to run handleCommand and has not returned.
InProgress(h) == hs[h].pc \notin {"start", "done"}

\* C4: no two handleCommand invocations are in progress at once.
C4_OneHandlerAtATime ==
    \A a, b \in H : InProgress(a) /\ InProgress(b) => a = b

Synchronous(h) == IsCmd(h, "fav") \/ IsCmd(h, "remove") \/ IsCmd(h, "list")

\* C5: the handling of a command begins only after the synchronous effects of
\* every command typed before it are complete.
C5_InSubmissionOrder ==
    \A a, b \in H :
        a < b /\ Synchronous(a) /\ hs[b].pc # "start" => hs[a].pc = "done"

\* C6: Favourites never holds two entries whose City is equal ignoring case.
C6_UniqueCities ==
    \A a, b \in DOMAIN favs :
        a # b => ToLower(favs[a].City) # ToLower(favs[b].City)

Confirmed(h, what) == \E k \in DOMAIN hs[h].out : hs[h].out[k] = what

\* C7: once a `fav` of a city has been confirmed, and no `remove` was typed,
\* a later `fav` of the same city reports the duplicate and adds nothing.
C7_SecondFavIsDuplicate ==
    \A a, b \in H :
        /\ a < b
        /\ IsCmd(a, "fav") /\ IsCmd(b, "fav")
        /\ Len(hs[a].input) > 1 /\ City(hs[a].input) = City(hs[b].input)
        /\ Confirmed(a, "added")
        /\ hs[b].pc = "done"
        /\ \A c \in H : ~IsCmd(c, "remove")
        => hs[b].err = ErrDuplicate /\ ~Confirmed(b, "added")

NoMatch(list, city) == \A k \in DOMAIN list : ToLower(list[k].City) # city

\* C8: a `remove` of a city that matches no entry of the list as
\* removeFavourite finds it never reaches the code that writes: it scans,
\* then sends the not-found error and ends without a confirmation, and no
\* step of it changes the list, its array or the file.
C8_RemoveAbsent ==
    /\ [][\A h \in 1..MaxFavCmds :
            ( /\ h \in H
              /\ IsCmd(h, "remove")
              /\ hs'[h] # hs[h]
              /\ NoMatch(hs'[h].view, City(hs[h].input)) )
            => /\ hs'[h].pc \in {"rm_scan", "send_err", "done"}
               /\ hs'[h].pc # "rm_scan" =>
                      hs'[h].err = ErrAbsent /\ hs'[h].after = "done"
               /\ cfg' = cfg /\ arrays' = arrays
               /\ disk' = disk /\ crashed' = crashed]_vars
    /\ [](\A h \in H : hs[h].err = ErrAbsent =>
             hs[h].pc \in {"send_err", "done"} /\ ~Confirmed(h, "removed"))

\* C9: an `f` that found n favourites has started exactly n fetches when
\* fetchFavourites returns.
C9_FanOutCount ==
    \A h \in H :
        IsCmd(h, "f") /\ hs[h].pc = "done" => Len(hs[h].tasks) = hs[h].n0

\* C10: while the process is alive, a typed command can be received by the
\* dispatcher at once and its handler can start at once, whatever fetches
\* are still in flight.
C10_Responsive ==
    /\ reader.pc = "send" /\ ~crashed => ENABLED MainRecvCmd
    /\ \A h \in H : hs[h].pc = "start" /\ ~crashed => ENABLED HStart(h)

\* A command typed after an `f` was handled to its end while a fetch of that
\* fan-out was still in flight.
C10_Witness ==
    \E f, h \in H :
        /\ f < h
        /\ IsCmd(f, "f") /\ hs[f].pc = "done"
        /\ \E k \in DOMAIN hs[f].tasks : hs[f].tasks[k].pc = "run"
        /\ hs[h].pc = "done"

\* C11: once the input has ended the process terminates: handleInput is never
\* left looping after the end of the input in a process that is alive.
C11_ReaderEndsWithStream == reader.pc = "eof" => crashed

\* C12: every token sequence handleInput sends on cmdChan has at least one
\* token.
C12_NoEmptyLineForwarded == reader.pc = "send" => Len(reader.input) > 0

\* The handler record r has printed `what`.
Says(r, what) == \E k \in DOMAIN r.out : r.out[k] = what

SaveErrors == {ErrSave, ErrWrite, ErrMarshal, ErrJSON}

\* The handler is past its assignment to config.Favourites: in json.Marshal,
\* in saveConfig, or at the confirmation.
Saving == {"marshal", "marshal_slot", "save", "write", "close", "confirm"}

\* No other `fav` or `remove` has begun to run.
Alone(h) ==
    \A g \in H : (g # h /\ (IsCmd(g, "fav") \/ IsCmd(g, "remove"))) => hs[g].pc = "start"

\* The list the handler r found, with its own change made to it.
Mutated(r) ==
    IF Command(r.input) = "fav" THEN Append(r.view, r.loc)
    ELSE RemoveAt(r.view, FindIndex(r.view, City(r.input)))

C14_NoSilentDivergence ==
    ( /\ ~crashed
      /\ \A h \in H : IsCmd(h, "fav") \/ IsCmd(h, "remove") => hs[h].pc = "done"
      /\ \A h \in H : hs[h].err \notin SaveErrors )
    => disk = WholeFile(favs)

\* main has printed an error: one a handleCommand sent, or one a fetchWeather
\* sent.
ErrorPrinted ==
    \/ \E h \in H : hs[h].errShown
    \/ \E t \in TaskIds : Task(t).res = "error" /\ Task(t).printed = 1

\* C15: the step in which main prints an error leaves the process alive and
\* changes no other fetchWeather, no other handler, neither the list nor the
\* file; and in a live process that has printed an error every pending event
\* can still be received: a typed command, the outcome of every fetchWeather
\* in flight, the error of every handler.
C15_ErrorsDoNotAbort ==
    /\ [][\A h \in 1..MaxCmds : h \in H =>
            /\ (hs'[h].errShown /\ ~hs[h].errShown) =>
                   /\ crashed' = FALSE /\ favs' = favs /\ disk' = disk
                   /\ reader' = reader
                   /\ hs'[h].tasks = hs[h].tasks
                   /\ \A g \in H : g # h => hs'[g] = hs[g]
            /\ \A k \in DOMAIN hs[h].tasks :
                   (hs'[h].tasks[k].res = "error" /\ hs[h].tasks[k].res # "error") =>
                      /\ crashed' = FALSE /\ favs' = favs /\ disk' = disk
                      /\ reader' = reader
                      /\ \A j \in DOMAIN hs[h].tasks :
                            j # k => hs'[h].tasks[j] = hs[h].tasks[j]
                      /\ \A g \in H : g # h => hs'[g] = hs[g]]_vars
    /\ [](ErrorPrinted /\ ~crashed =>
             /\ reader.pc = "send" => ENABLED MainRecvCmd
             /\ \A t \in TaskIds : Task(t).pc = "run" =>
                    ENABLED MainRecvWeather(t) /\ ENABLED MainRecvTaskErr(t)
             /\ \A h \in H : hs[h].pc = "send_err" => ENABLED MainRecvHandlerErr(h)
             /\ \A h \in H : hs[h].pc = "start" => ENABLED HStart(h))

\* One fetch of an `f` had its error printed while its sibling was still in
\* flight, and the process is alive.
C15_Witness ==
    \E h \in H :
        /\ IsCmd(h, "f") /\ Len(hs[h].tasks) = 2 /\ ~crashed
        /\ \E j, k \in DOMAIN hs[h].tasks :
              /\ hs[h].tasks[j].res = "error" /\ hs[h].tasks[j].printed = 1
              /\ hs[h].tasks[k].pc = "run"

\* C16: a fetchWeather started by `f` gets the coordinates of the entry the
\* loop is at in the list as it is at that moment, and keeps them to its end;
\* a step that changes the list changes no fetchWeather and leaves the
\* process alive; and no fetchWeather of an `f` is in flight in a process
\* that a panic of a handler has ended.
C16_CapturedCoordinates ==
    /\ [][\A h \in 1..MaxCmds : (h \in H /\ IsCmd(h, "f")) =>
            /\ \A k \in DOMAIN hs'[h].tasks :
                   IF k \in DOMAIN hs[h].tasks
                   THEN /\ hs'[h].tasks[k].coord = hs[h].tasks[k].coord
                        /\ favs' # favs =>
                              /\ hs'[h].tasks[k] = hs[h].tasks[k]
                              /\ crashed' = FALSE
                   ELSE /\ hs[h].i + 1 \in DOMAIN favs
                        /\ hs'[h].tasks[k].coord = favs[hs[h].i + 1].Coord
                        /\ hs'[h].tasks[k].pc = "run"]_vars
    /\ [](\A h \in H : hs[h].pc = "panic" =>
             \A t \in TaskIds : IsCmd(t[1], "f") => Task(t).pc # "run")

\* The verbs handleCommand knows.
Verbs == {"w", "f", "list", "fav", "remove", "help"}

\* The command of handler h changes no state: `list`, `help` or a verb
\* handleCommand does not know.
Inert(h) ==
    /\ Len(hs[h].input) > 0
    /\ Command(hs[h].input) \in {"list", "help"} \/ Command(hs[h].input) \notin Verbs

\* C17: the handling of `list`, `help` or an unknown verb is one step that
\* ends the handler, starts no fetchWeather, sends no error, and changes
\* neither the list, the file, the reader nor any other goroutine; for an
\* unknown verb it prints "Unknown command" and nothing else.
C17_InertCommands ==
    /\ [][\A h \in 1..MaxCmds : (h \in H /\ Inert(h) /\ hs'[h] # hs[h]) =>
            /\ hs[h].pc = "start" /\ hs'[h].pc = "done"
            /\ hs'[h].tasks = <<>> /\ hs'[h].err = NoErr /\ ~hs'[h].errShown
            /\ favs' = favs /\ disk' = disk /\ reader' = reader /\ crashed' = crashed
            /\ \A g \in H : g # h => hs'[g] = hs[g]
            /\ Command(hs[h].input) \notin Verbs =>
                   hs'[h].out = <<"Unknown command">>]_vars
    /\ [](\A h \in H : Inert(h) =>
             /\ hs[h].pc \in {"start", "done"}
             /\ hs[h].tasks = <<>> /\ hs[h].err = NoErr)

\* An unknown verb was handled while a fetchWeather of another command was in
\* flight.
C17_Witness ==
    \E h \in H :
        /\ Inert(h) /\ Command(hs[h].input) \notin Verbs
        /\ hs[h].pc = "done" /\ Says(hs[h], "Unknown command")
        /\ \E t \in TaskIds : Task(t).pc = "run"

\* C18: `list` handled while the list is empty prints "No favourites added",
\* sends no error, ends the handler, and changes neither the list, the file
\* nor any other goroutine.
C18_ListEmpty ==
    /\ [][\A h \in 1..MaxCmds :
            ( /\ h \in H /\ IsCmd(h, "list") /\ hs[h].pc = "start"
              /\ hs'[h] # hs[h] /\ Len(favs) = 0 ) =>
            /\ Says(hs'[h], "No favourites added")
            /\ hs'[h].pc = "done" /\ hs'[h].err = NoErr /\ ~hs'[h].errShown
            /\ favs' = favs /\ disk' = disk
            /\ \A g \in H : g # h => hs'[g] = hs[g]]_vars
    /\ [](\A h \in H : IsCmd(h, "list") => hs[h].err = NoErr /\ hs[h].pc # "send_err")

\* A `list` has printed "No favourites added" and the list is empty.
C18_Witness ==
    \E h \in H :
        /\ IsCmd(h, "list") /\ hs[h].pc = "done"
        /\ Says(hs[h], "No favourites added") /\ Len(favs) = 0

\* C19: under fair scheduling every handleCommand of a `w <city>` eventually
\* returns.
C19_WHandlerReturns ==
    \A h \in 1..MaxWeatherCmds :
        (h \in H /\ IsCmd(h, "w") /\ Len(hs[h].input) > 1)
            ~> (h \in H /\ hs[h].pc = "done")

\* C20: the result a `w` handler has received and printed is the one sent by
\* the fetchWeather its own getWeatherByCity started.
C20_OwnResult ==
    \A h \in H : hs[h].got # <<>> => hs[h].got = <<h, 1>> /\ Len(hs[h].tasks) = 1

\* C21: the fetches an `f` has started are, in order, those of the entries of
\* the list as fetchFavourites found it, and all of them once the loop has
\* ended.
C21_ConsistentFanOut ==
    \A h \in H : IsCmd(h, "f") =>
        /\ \A k \in DOMAIN hs[h].tasks :
              k \in DOMAIN hs[h].view /\ hs[h].tasks[k].coord = hs[h].view[k].Coord
        /\ hs[h].pc = "done" => Len(hs[h].tasks) = Len(hs[h].view)

\* C22: a `remove` of a city in the list takes out the first entry whose
\* lowercased City is the argument, of the list as removeFavourite finds it:
\* the scan ends at the index of that entry and never with not-found, the
\* assignment finds that list and stores it without the entry (one entry
\* less, the others in their order), the bytes saved are the list stored,
\* and no `remove` panics.
C22_RemoveFirstMatch ==
    [][\A h \in 1..MaxCmds : (h \in H /\ IsCmd(h, "remove")) =>
          LET index == FindIndex(hs'[h].view, City(hs[h].input))
              left  == RemoveAt(hs'[h].view, index)
          IN  /\ hs'[h].pc # "panic"
              /\ (hs[h].pc # "rm_mutate" /\ hs'[h].pc = "rm_mutate") =>
                     hs'[h].idx = index
              /\ hs'[h].err = ErrAbsent => index = -1
              /\ (hs[h].pc \in {"rm_mutate", "rm_load"} /\ hs'[h].pc # hs[h].pc) =>
                     favs = hs[h].view
              /\ (hs[h].pc = "rm_assign" /\ hs'[h].pc = "marshal") =>
                     /\ favs' = left
                     /\ Len(favs') = Len(hs[h].view) - 1
              /\ (hs[h].pc \in {"marshal", "marshal_slot"} /\ hs'[h].pc = "save") =>
                     hs'[h].bytes = left]_vars

====
